---- MODULE Spec2Model ----
(***************************************************************************)
(* A model of opuslang2/compile.py: the rule model (Bid, BidHistory,       *)
(* Condition, BidExpression, Branch), the prefix test, the condition       *)
(* sequencer Branch.all_conditions_sorted, the logical-suit resolver       *)
(* LogicSuit.resolve_logical_suits with the expression constructors that   *)
(* call it, and the recursive tree assembler build_branch.                 *)
(*                                                                         *)
(* Python values are modelled as records.  A call's outcome is either      *)
(* Return(v) or Raise(exception name).  None is the string "None" where a  *)
(* meta is expected and the empty tuple <<>> where a priority is expected  *)
(* (a numeric priority n is <<n>>).                                        *)
(***************************************************************************)
EXTENDS Integers, Sequences, FiniteSets, TLC

VARIABLES
    mode,          \* which component the behaviour exercises
    pc,            \* position of the driver within that component
    histA, histB,  \* prefix test: the two BidHistory operands
    bidb,          \* prefix test: the Bid appended to histA
    containsAB,    \* outcome of  histA in histB
    containsAAb,   \* outcome of  histA in (histA + bidb)
    group,         \* sequencer: the Branch whose conditions are sorted
    sorted1,       \* outcome of the first  all_conditions_sorted() call
    sorted2,       \* outcome of the second all_conditions_sorted() call
    expr,          \* resolver: the BinaryExpr handed to resolve_logical_suits
    resolved,      \* outcome of resolve_logical_suits(expr)
    resolved2,     \* outcome of resolve_logical_suits on that result
    rest,          \* assembler: the list of all Branch objects
    target,        \* assembler: index in rest of the Branch compiled
    stack,         \* assembler: the activation records of build_branch
    result         \* assembler: outcome of the outermost build_branch call

vars == <<mode, pc, histA, histB, bidb, containsAB, containsAAb, group,
          sorted1, sorted2, expr, resolved, resolved2, rest, target, stack,
          result>>

prefixVars  == <<histA, histB, bidb, containsAB, containsAAb>>
sortVars    == <<group, sorted1, sorted2>>
resolveVars == <<expr, resolved, resolved2>>
buildVars   == <<rest, target, stack, result>>

-----------------------------------------------------------------------------
(* Bounds of the model.                                                    *)

MaxHistLen == 2     \* longest BidHistory of the prefix test
MaxUniq == 2        \* the uniquifier is drawn from 0 .. MaxUniq-1
MaxConts == 2       \* most continuations of a Branch
MaxConds == 1       \* most conditions of a BidExpression
MaxPairs == 2       \* most (condition, bid) pairs of a Branch
MaxPrefixLen == 2   \* longest prefix of a Branch handed to build_branch
MaxBinary == 1      \* most binary() combinations applied to one expression

-----------------------------------------------------------------------------
(* Outcomes of a call.                                                     *)

NotCalled == [tag |-> "none"]
Return(v) == [tag |-> "return", val |-> v]
Raise(e) == [tag |-> "raise", exc |-> e]
Returned(o) == o.tag = "return"
Raised(o) == o.tag = "raise"

None == "None"
NoPriority == <<>>
Priority(n) == <<n>>

Min(a, b) == IF a <= b THEN a ELSE b

SeqsUpTo(S, n) == UNION {[1..k -> S] : k \in 0..n}

-----------------------------------------------------------------------------
(* Bid: dataclass(frozen, order) over (level, color); meta does not take   *)
(* part in comparison.  A color is the rank of the denomination in the     *)
(* Suit order.                                                             *)

Levels == 1..2
Colors == 1..2
Bid(l, c) == [level |-> l, color |-> c]
Bids == {Bid(l, c) : l \in Levels, c \in Colors}

BidLess(a, b) ==
    \/ a.level < b.level
    \/ a.level = b.level /\ a.color < b.color

-----------------------------------------------------------------------------
(* BidHistory: dataclass over (sequence, meta), both compared by ==.       *)
(* sequence is a Python list (opening, from_str, __add__) or a tuple       *)
(* (continuation); a list never equals a tuple.                            *)

BidHistory(s, k, m) == [sequence |-> s, kind |-> k, meta |-> m]

\* CompileTransformer.opening: BidHistory([], meta) with the parser's meta
opening(m) == BidHistory(<<>>, "list", m)

\* CompileTransformer.continuation: BidHistory(children, meta=None), where
\* children is the tuple of the inlined arguments
continuation(children) == BidHistory(children, "tuple", None)

\* BidHistory.from_str: BidHistory(list(map(Bid.from_str, ...)), None)
from_str(s) == BidHistory(s, "list", None)

_is_prefix(p, l) ==
    \A k \in 1..Min(Len(p), Len(l)) : p[k] = l[k]

\* BidHistory.__contains__ with a BidHistory item
Contains(self, item) == _is_prefix(item.sequence, self.sequence)

\* __add__ that copies the list and forgets to append the bid
AddWithoutAppend(self, other) ==
    IF self.kind = "list"
      THEN Return(BidHistory(self.sequence, "list", self.meta))
      ELSE Raise("AttributeError")

\* BidHistory.__add__ with a Bid: list.copy, append; a tuple has no copy
Add(self, other) ==
    IF self.kind = "list"
      THEN Return(BidHistory(Append(self.sequence, other), "list", self.meta))
      ELSE Raise("AttributeError")

-----------------------------------------------------------------------------
(* The prefix test.                                                        *)

Metas == {None, "meta"}
Histories ==
    {from_str(s) : s \in SeqsUpTo(Bids, MaxHistLen)}
      \cup {continuation(s) : s \in SeqsUpTo(Bids, MaxHistLen) \ {<<>>}}
      \cup {opening(m) : m \in Metas \ {None}}

InitPrefix ==
    /\ mode = "prefix"
    /\ pc = "start"
    /\ histA \in Histories
    /\ histB \in Histories
    /\ bidb \in Bids
    /\ containsAB = NotCalled
    /\ containsAAb = NotCalled
    /\ group = None /\ sorted1 = NotCalled /\ sorted2 = NotCalled
    /\ expr = None /\ resolved = NotCalled /\ resolved2 = NotCalled
    /\ rest = <<>> /\ target = 0 /\ stack = <<>> /\ result = NotCalled

\* histA in histB
ContainsOther ==
    /\ mode = "prefix" /\ pc = "start"
    /\ containsAB' = Return(Contains(histB, histA))
    /\ pc' = "tested"
    /\ UNCHANGED <<mode, histA, histB, bidb, containsAAb>>
    /\ UNCHANGED <<sortVars, resolveVars, buildVars>>

\* histA in (histA + bidb)
ContainsExtended ==
    /\ mode = "prefix" /\ pc = "tested"
    /\ LET sum == Add(histA, bidb)
       IN containsAAb' = IF Raised(sum) THEN sum
                         ELSE Return(Contains(sum.val, histA))
    /\ pc' = "done"
    /\ UNCHANGED <<mode, histA, histB, bidb, containsAB>>
    /\ UNCHANGED <<sortVars, resolveVars, buildVars>>

NextPrefix == ContainsOther \/ ContainsExtended
SpecPrefix == InitPrefix /\ [][NextPrefix]_vars

\* C6: the prefix test reports A as a prefix of A + b, and reports A as not
\* a prefix of B whenever A is longer than B.
C6_PrefixTest ==
    mode = "prefix" =>
      /\ pc = "done" => containsAAb = Return(TRUE)
      /\ (pc # "start" /\ Len(histA.sequence) > Len(histB.sequence))
            => containsAB = Return(FALSE)

-----------------------------------------------------------------------------
(* Condition, BidExpression, Branch.                                       *)

Condition(e, p) == [expr |-> e, priority |-> p, meta |-> None]
BidExpression(b, cs) == [prefix |-> b, conditions |-> cs]
Branch(h, conts) == [prefix |-> h, continuations |-> conts]

NoPrioritySentinel == 999999

\* line 84: -cond.priority if cond.priority is not None else -999_999
NumVal(cond) ==
    IF cond.priority # NoPriority THEN 0 - cond.priority[1]
    ELSE 0 - NoPrioritySentinel

\* The (bid, cond) pairs in the order the two nested loops visit them.
RECURSIVE PairsOf(_)
PairsOf(conts) ==
    IF conts = <<>> THEN <<>>
    ELSE [k \in 1..Len(Head(conts).conditions) |->
             [bid |-> Head(conts).prefix, cond |-> Head(conts).conditions[k]]]
         \o PairsOf(Tail(conts))

\* The list to_sort, given the values random.randrange returned.
Tuples(pairs, uniq) ==
    [k \in 1..Len(pairs) |->
        [num_val |-> NumVal(pairs[k].cond), bid |-> pairs[k].bid,
         uniquifier |-> uniq[k], cond |-> pairs[k].cond]]
ToSort(branch, uniq) ==
    CHOOSE to_sort \in {Tuples(pairs, uniq) :
                           pairs \in {PairsOf(branch.continuations)}} : TRUE

\* Equal in the first three components of the tuple.
SameKey(a, b) ==
    /\ a.num_val = b.num_val
    /\ a.bid = b.bid
    /\ a.uniquifier = b.uniquifier

\* Tuple comparison a > b reaches the conditions only when the first three
\* components are equal.
KeyGreater(a, b) ==
    \/ a.num_val > b.num_val
    \/ a.num_val = b.num_val /\ BidLess(b.bid, a.bid)
    \/ a.num_val = b.num_val /\ a.bid = b.bid /\ a.uniquifier > b.uniquifier

\* Two tuples equal up to the uniquifier whose conditions differ are compared
\* by Condition.__lt__, which the dataclass does not define: TypeError.
CompareRaises(ts) ==
    \E i, j \in 1..Len(ts) :
        i < j /\ SameKey(ts[i], ts[j]) /\ ts[i].cond # ts[j].cond

\* to_sort.sort(reverse=True): a stable sort into descending order; the
\* element at index i goes behind every element greater than it and behind
\* the equal elements that precede it in the list.
SortReverse(ts) ==
    LET Pos(i) ==
            1 + Cardinality({j \in 1..Len(ts) :
                                \/ KeyGreater(ts[j], ts[i])
                                \/ ~KeyGreater(ts[i], ts[j]) /\ j < i})
    IN [k \in 1..Len(ts) |-> ts[CHOOSE i \in 1..Len(ts) : Pos(i) = k]]

\* lines 91-92: sort the list, then yield (c, bid) for each tuple
YieldPairs(sorted) ==
    [k \in 1..Len(sorted) |-> [cond |-> sorted[k].cond, bid |-> sorted[k].bid]]
SortAndYield(ts) ==
    IF CompareRaises(ts) THEN Raise("TypeError")
    ELSE Return(CHOOSE pairs \in {YieldPairs(s) : s \in {SortReverse(ts)}} :
                   TRUE)

\* Branch.all_conditions_sorted, given the uniquifiers drawn (to_sort is
\* built once, then sorted)
all_conditions_sorted(branch, uniq) ==
    CHOOSE outcome \in {SortAndYield(ts) : ts \in {ToSort(branch, uniq)}} : TRUE

Uniquifiers(branch) ==
    [1..Len(PairsOf(branch.continuations)) -> 0..(MaxUniq - 1)]

-----------------------------------------------------------------------------
(* The condition sequencer, called twice on the same Branch.               *)

Exprs == {"e1", "e2"}
SortPriorities ==
    {Priority(1), Priority(2), Priority(NoPrioritySentinel + 1), NoPriority}
SortConditions == {Condition(e, p) : e \in Exprs, p \in SortPriorities}
SortBidExpressions ==
    {BidExpression(b, cs) : b \in Bids, cs \in SeqsUpTo(SortConditions, MaxConds)}
SortBranches ==
    {Branch(from_str(<<>>), conts) :
        conts \in {c \in SeqsUpTo(SortBidExpressions, MaxConts) :
                      Len(PairsOf(c)) \in 1..MaxPairs}}

InitSort ==
    /\ mode = "sort"
    /\ pc = "start"
    /\ group \in SortBranches
    /\ sorted1 = NotCalled /\ sorted2 = NotCalled
    /\ histA = None /\ histB = None /\ bidb = None
    /\ containsAB = NotCalled /\ containsAAb = NotCalled
    /\ expr = None /\ resolved = NotCalled /\ resolved2 = NotCalled
    /\ rest = <<>> /\ target = 0 /\ stack = <<>> /\ result = NotCalled

FirstSort ==
    /\ mode = "sort" /\ pc = "start"
    /\ \E uniq \in Uniquifiers(group) :
          sorted1' = all_conditions_sorted(group, uniq)
    /\ pc' = "sorted"
    /\ UNCHANGED <<mode, group, sorted2>>
    /\ UNCHANGED <<prefixVars, resolveVars, buildVars>>

SecondSort ==
    /\ mode = "sort" /\ pc = "sorted"
    /\ \E uniq \in Uniquifiers(group) :
          sorted2' = all_conditions_sorted(group, uniq)
    /\ pc' = "done"
    /\ UNCHANGED <<mode, group, sorted1>>
    /\ UNCHANGED <<prefixVars, resolveVars, buildVars>>

NextSort == FirstSort \/ SecondSort
SpecSort == InitSort /\ [][NextSort]_vars

PriorityBefore(p, q) ==
    \/ p # NoPriority /\ q = NoPriority
    \/ p # NoPriority /\ q # NoPriority /\ p[1] < q[1]

\* C1: the pairs come out by priority ascending, a condition with no
\* priority strictly after every condition with a numeric priority, and
\* pairs of equal priority by bid descending.
C1_SortedOrder ==
    (mode = "sort" /\ pc # "start" /\ Returned(sorted1)) =>
      /\ Len(sorted1.val) = Len(PairsOf(group.continuations))
      /\ \A i, j \in 1..Len(sorted1.val) :
            i < j =>
              LET a == sorted1.val[i]
                  b == sorted1.val[j]
              IN /\ ~PriorityBefore(b.cond.priority, a.cond.priority)
                 /\ a.cond.priority = b.cond.priority => ~BidLess(a.bid, b.bid)

\* C7: two invocations on the same rule group emit the same sequence.
C7_Deterministic ==
    (mode = "sort" /\ pc = "done" /\ Returned(sorted1) /\ Returned(sorted2))
        => sorted1.val = sorted2.val

-----------------------------------------------------------------------------
(* Expressions: ir.Suit, LogicSuit, ir.Atom(type, meta, child),            *)
(* ir.BinaryExpr(meta, lhs, op, rhs) and int literals.                     *)

Suit(n) == [kind |-> "Suit", name |-> n]
LogicSuit(t, l, r) == [kind |-> "LogicSuit", type |-> t, lhs |-> l, rhs |-> r]
Atom(t, c) == [kind |-> "Atom", type |-> t, child |-> c]
BinaryExpr(l, o, r) == [kind |-> "BinaryExpr", lhs |-> l, op |-> o, rhs |-> r]
Number(n) == [kind |-> "int", val |-> n]
Name(n) == [kind |-> "str", val |-> n]
NoneObject == [kind |-> "NoneType"]

IsBinaryExpr(x) == x.kind = "BinaryExpr"
IsLogicSuit(x) == x.kind = "LogicSuit"

\* getattr(x, "child", None): only an Atom has a child
GetChild(x) == IF x.kind = "Atom" THEN x.child ELSE NoneObject

RECURSIVE ContainsLogicSuit(_)
ContainsLogicSuit(x) ==
    CASE x.kind = "LogicSuit" -> TRUE
      [] x.kind = "Atom" -> ContainsLogicSuit(x.child)
      [] x.kind = "BinaryExpr" ->
            ContainsLogicSuit(x.lhs) \/ ContainsLogicSuit(x.rhs)
      [] OTHER -> FALSE

\* LogicSuit.resolve_logical_suits.  In the elif branch logic_suit is still
\* what the walrus bound from expr.lhs, which is there no LogicSuit: reading
\* its lhs, rhs and type raises AttributeError.
RECURSIVE resolve_logical_suits(_)
resolve_logical_suits(e) ==
    LET l == IF IsBinaryExpr(e.lhs) THEN resolve_logical_suits(e.lhs)
             ELSE Return(e.lhs)
    IN IF Raised(l) THEN l
       ELSE
    LET r == IF IsBinaryExpr(e.rhs) THEN resolve_logical_suits(e.rhs)
             ELSE Return(e.rhs)
    IN IF Raised(r) THEN r
       ELSE
    LET ex == BinaryExpr(l.val, e.op, r.val)
        logic_suit == GetChild(ex.lhs)
    IN IF IsLogicSuit(ex.rhs) /\ IsLogicSuit(ex.lhs)
         THEN Raise("NotImplementedError")
       ELSE IF IsLogicSuit(logic_suit)
         THEN Return(BinaryExpr([ex EXCEPT !.lhs = logic_suit.lhs],
                                logic_suit.type,
                                [ex EXCEPT !.lhs = logic_suit.rhs]))
       ELSE IF IsLogicSuit(GetChild(ex.rhs))
         THEN IF IsLogicSuit(logic_suit)
                THEN Return(BinaryExpr([ex EXCEPT !.lhs = logic_suit.lhs],
                                       logic_suit.type,
                                       [ex EXCEPT !.lhs = logic_suit.rhs]))
                ELSE Raise("AttributeError")
       ELSE Return(ex)

\* The range constructors return a function of the subject; a range
\* generator is modelled by its shape and bounds.
or_more(lower) == [shape |-> "or_more", lower |-> lower, upper |-> lower]
or_fewer(upper) == [shape |-> "or_fewer", lower |-> upper, upper |-> upper]
exact(lower) == [shape |-> "exact", lower |-> lower, upper |-> lower]
range(lower, upper) == [shape |-> "range", lower |-> lower, upper |-> upper]

ApplyRange(range_gen, val) ==
    CASE range_gen.shape = "or_more" -> BinaryExpr(val, ">=", range_gen.lower)
      [] range_gen.shape = "or_fewer" -> BinaryExpr(val, "<=", range_gen.upper)
      [] range_gen.shape = "exact" -> BinaryExpr(val, "==", range_gen.lower)
      [] range_gen.shape = "range" ->
            BinaryExpr(
                BinaryExpr(Atom("SUIT_POINTS", Suit("@")), ">=", range_gen.lower),
                "and",
                BinaryExpr(val, "<=", range_gen.upper))

\* CompileTransformer.point_range without a color
point_range(range_gen) == ApplyRange(range_gen, Atom("SUIT_POINTS", Suit("@")))

\* The BinaryExpr CompileTransformer.count_expr hands to the resolver
CountExprInput(range_gen, suit) == ApplyRange(range_gen, Atom("SUIT_CARDS", suit))

-----------------------------------------------------------------------------
(* The resolver, driven as the transformer drives it: a leaf rule          *)
(* (count_expr, cmp) builds and resolves an expression, binary() combines  *)
(* the result with another leaf, and the resolver runs once more on what   *)
(* it returned.                                                            *)

Suits == {Suit("H"), Suit("S")}
SuitTypes == {"and", "or"}
FlatLogicSuits == {LogicSuit(t, l, r) : t \in SuitTypes, l \in Suits, r \in Suits}
NestedLogicSuits ==
    {LogicSuit(t, l, r) : t \in SuitTypes, l \in FlatLogicSuits, r \in Suits}
      \cup {LogicSuit(t, l, r) : t \in SuitTypes, l \in Suits, r \in FlatLogicSuits}
SuitExprs == Suits \cup FlatLogicSuits \cup NestedLogicSuits
RangeGens ==
    {or_more(Number(3)), or_fewer(Number(3)), exact(Number(3)), range(Number(3), Number(5))}
CmpOps == {"<=", ">=", "=="}
BoolOps == {"and", "or"}
CmpOperands ==
    {Atom("SUIT_CARDS", s) : s \in Suits \cup FlatLogicSuits}
      \cup {Atom("VAR", Name("x")), Number(3)}

InitResolve ==
    /\ mode = "resolve"
    /\ pc = "start"
    /\ expr = None /\ resolved = NotCalled /\ resolved2 = NotCalled
    /\ histA = None /\ histB = None /\ bidb = None
    /\ containsAB = NotCalled /\ containsAAb = NotCalled
    /\ group = None /\ sorted1 = NotCalled /\ sorted2 = NotCalled
    /\ rest = <<>> /\ target = 0 /\ stack = <<>> /\ result = NotCalled

\* CompileTransformer.count_expr(range_gen, suit)
count_expr ==
    /\ mode = "resolve" /\ pc = "start"
    /\ \E range_gen \in RangeGens, suit \in SuitExprs :
          /\ expr' = CountExprInput(range_gen, suit)
          /\ resolved' = resolve_logical_suits(expr')
    /\ pc' = "built0"
    /\ UNCHANGED <<mode, resolved2>>
    /\ UNCHANGED <<prefixVars, sortVars, buildVars>>

\* CompileTransformer.cmp(lhs, op, rhs)
cmp ==
    /\ mode = "resolve" /\ pc = "start"
    /\ \E lhs \in CmpOperands, op \in CmpOps, rhs \in CmpOperands :
          /\ expr' = BinaryExpr(lhs, op, rhs)
          /\ resolved' = resolve_logical_suits(expr')
    /\ pc' = "built0"
    /\ UNCHANGED <<mode, resolved2>>
    /\ UNCHANGED <<prefixVars, sortVars, buildVars>>

BinaryCount == IF pc = "built0" THEN 0 ELSE MaxBinary

\* CompileTransformer.binary(lhs, op, rhs): one operand is the expression
\* built so far, the other a point range
binary ==
    /\ mode = "resolve" /\ pc = "built0" /\ BinaryCount < MaxBinary
    /\ Returned(resolved)
    /\ \E op \in BoolOps, other \in {point_range(or_more(Number(3)))},
          left \in BOOLEAN :
          /\ expr' = IF left THEN BinaryExpr(resolved.val, op, other)
                     ELSE BinaryExpr(other, op, resolved.val)
          /\ resolved' = resolve_logical_suits(expr')
    /\ pc' = "built1"
    /\ UNCHANGED <<mode, resolved2>>
    /\ UNCHANGED <<prefixVars, sortVars, buildVars>>

\* resolve_logical_suits applied to its own result
ResolveAgain ==
    /\ mode = "resolve" /\ pc \in {"built0", "built1"}
    /\ Returned(resolved)
    /\ resolved2' = resolve_logical_suits(resolved.val)
    /\ pc' = "done"
    /\ UNCHANGED <<mode, expr, resolved>>
    /\ UNCHANGED <<prefixVars, sortVars, buildVars>>

NextResolve == count_expr \/ cmp \/ binary \/ ResolveAgain
SpecResolve == InitResolve /\ [][NextResolve]_vars

\* C4: whenever resolve_logical_suits returns, the returned tree contains
\* no LogicSuit node at any depth.
C4_NoLogicSuitLeft ==
    (mode = "resolve" /\ Returned(resolved)) =>
        ~ContainsLogicSuit(resolved.val)

\* C5: a count condition over the logic suit "s1 <type> s2" with a one-sided
\* range resolves to (SUIT_CARDS(s1) cmp n) <type> (SUIT_CARDS(s2) cmp n).
C5_CountDistributes ==
    (mode = "resolve" /\ pc = "built0") =>
        \A range_gen \in {or_more(Number(3)), or_fewer(Number(3)), exact(Number(3))},
           ls \in FlatLogicSuits :
            expr = CountExprInput(range_gen, ls) =>
                resolved =
                  Return(BinaryExpr(
                           ApplyRange(range_gen, Atom("SUIT_CARDS", ls.lhs)),
                           ls.type,
                           ApplyRange(range_gen, Atom("SUIT_CARDS", ls.rhs))))

\* C8: resolving the result of resolve_logical_suits once more returns a
\* structurally identical tree.
C8_Idempotent ==
    (mode = "resolve" /\ pc = "done") => resolved2 = Return(resolved.val)

-----------------------------------------------------------------------------
(* build_branch.  Every activation of the recursive function is a frame:   *)
(* the Branch it compiles (an index in rest), the position i of the loop   *)
(* over branch.continuations, continuation_dict, and then the sequence     *)
(* all_conditions_sorted() returned and the result list built from it.     *)

EmptyDict == [b \in {} |-> <<>>]
DictSet(d, key, v) ==
    [b \in DOMAIN d \cup {key} |-> IF b = key THEN v ELSE d[b]]

Frame(k) ==
    [branch |-> k, i |-> 1, continuation_dict |-> EmptyDict,
     phase |-> "loop", sorted |-> <<>>, result |-> <<>>]

MaxStack == MaxPrefixLen + 2

\* _find(rest, lambda b: b.prefix == branch.prefix + bid, None): the index
\* of the first match, 0 for None; the lambda runs once per element until
\* one matches, and raises what __add__ raises.
_find(list, prefix, bid) ==
    IF list = <<>> THEN Return(0)
    ELSE LET sum == Add(prefix, bid)
         IN IF Raised(sum) THEN sum
            ELSE LET hits == {k \in 1..Len(list) : list[k].prefix = sum.val}
                 IN Return(IF hits = {} THEN 0
                           ELSE CHOOSE k \in hits : \A m \in hits : k <= m)

\* The loop of lines 373-382 inserting each node at the front of result
EmitNodesReversed(sorted, continuation_dict) ==
    [k \in 1..Len(sorted) |->
        [test |-> sorted[Len(sorted) + 1 - k].cond.expr,
         bid |-> sorted[Len(sorted) + 1 - k].bid,
         children |-> continuation_dict[sorted[Len(sorted) + 1 - k].bid]]]

\* lines 373-382: one ir.Branch per (condition, bid) pair, in order
EmitNodes(sorted, continuation_dict) ==
    [k \in 1..Len(sorted) |->
        [test |-> sorted[k].cond.expr,
         bid |-> sorted[k].bid,
         children |-> continuation_dict[sorted[k].bid]]]

BuildBids == {Bid(1, c) : c \in Colors}
Paths == SeqsUpTo(BuildBids, MaxPrefixLen)
Origins == {"transformer", "from_str"}

\* The prefix of a Branch as the program builds it: by the transformer
\* rules opening and continuation, or by BidHistory.from_str.
PrefixFrom(origin, s) ==
    IF origin = "from_str" THEN from_str(s)
    ELSE IF s = <<>> THEN opening("meta")
    ELSE continuation(s)

BuildPriorities == {Priority(1), NoPriority}
BuildConditions == {Condition(e, p) : e \in Exprs, p \in BuildPriorities}
BuildBidExpressions ==
    {BidExpression(b, cs) :
        b \in BuildBids, cs \in SeqsUpTo(BuildConditions, MaxConds)}

\* One continuation per bid of S, in bid order, each with one condition.
BidsInOrder(S) ==
    CHOOSE s \in [1..Cardinality(S) -> S] :
        \A i, j \in 1..Cardinality(S) : i < j => BidLess(s[i], s[j])
PlainContinuations(S) ==
    [k \in 1..Cardinality(S) |->
        BidExpression(BidsInOrder(S)[k], <<Condition("e1", Priority(1))>>)]

InitBuild ==
    /\ mode = "build"
    /\ pc = "start"
    /\ rest = <<>>
    /\ target = 0
    /\ stack = <<>>
    /\ result = NotCalled
    /\ histA = None /\ histB = None /\ bidb = None
    /\ containsAB = NotCalled /\ containsAAb = NotCalled
    /\ group = None /\ sorted1 = NotCalled /\ sorted2 = NotCalled
    /\ expr = None /\ resolved = NotCalled /\ resolved2 = NotCalled

\* A single rule group with any continuations.
OneGroupPrefixes == {opening("meta"), continuation(<<Bid(1, 1)>>)}
OneGroupLists ==
    {<<Branch(prefix, conts)>> :
        prefix \in OneGroupPrefixes,
        conts \in {c \in SeqsUpTo(BuildBidExpressions, MaxConts) :
                      Len(PairsOf(c)) <= MaxPairs}}

\* Rule groups along one auction path: a group for each initial segment of
\* the path up to some length, each offering at least one of the bids.
ChainList(origin, path, offers) ==
    [k \in 1..Cardinality(DOMAIN offers) |->
        Branch(PrefixFrom(origin, SubSeq(path, 1, k - 1)),
               PlainContinuations(offers[k - 1]))]
ChainLists ==
    UNION {{ChainList(origin, path, offers) :
               origin \in Origins, path \in [1..MaxPrefixLen -> BuildBids],
               offers \in [0..n -> SUBSET BuildBids \ {{}}]} :
           n \in 0..MaxPrefixLen}

\* The opening group and a group after each first bid.
FanList(origin, offers) ==
    LET firsts == BidsInOrder(BuildBids)
    IN <<Branch(PrefixFrom(origin, <<>>), PlainContinuations(offers[0]))>>
       \o [k \in 1..Len(firsts) |->
              Branch(PrefixFrom(origin, <<firsts[k]>>),
                     PlainContinuations(offers[k]))]
FanLists ==
    {FanList(origin, offers) :
        origin \in Origins,
        offers \in [0..Cardinality(BuildBids) -> SUBSET BuildBids]}

RuleGroupLists == OneGroupLists \cup ChainLists \cup FanLists

Top == stack[Len(stack)]
TopBranch == rest[Top.branch]
SetTop(f) == [stack EXCEPT ![Len(stack)] = f]
InLoop ==
    /\ mode = "build" /\ pc = "running"
    /\ Top.phase = "loop"
    /\ Top.i <= Len(TopBranch.continuations)
Lookup ==
    _find(rest, TopBranch.prefix, TopBranch.continuations[Top.i].prefix)

\* build_branch(list[k], list) is called
Call ==
    /\ mode = "build" /\ pc = "start"
    /\ rest' \in RuleGroupLists
    /\ target' \in 1..Len(rest')
    /\ stack' = <<Frame(target')>>
    /\ pc' = "running"
    /\ UNCHANGED <<mode, result>>
    /\ UNCHANGED <<prefixVars, sortVars, resolveVars>>

\* lines 364-369: no Branch has the prefix, continuation_dict[bid] = []
LookupMiss ==
    /\ InLoop
    /\ Returned(Lookup) /\ Lookup.val = 0
    /\ stack' = SetTop([Top EXCEPT
            !.continuation_dict =
                DictSet(@, TopBranch.continuations[Top.i].prefix, <<>>),
            !.i = @ + 1])
    /\ UNCHANGED <<mode, pc, rest, target, result>>
    /\ UNCHANGED <<prefixVars, sortVars, resolveVars>>

\* lines 364-366: a Branch has the prefix, build_branch is called on it
Recurse ==
    /\ InLoop
    /\ Returned(Lookup) /\ Lookup.val # 0
    /\ Len(stack) < MaxStack
    /\ stack' = Append(stack, Frame(Lookup.val))
    /\ UNCHANGED <<mode, pc, rest, target, result>>
    /\ UNCHANGED <<prefixVars, sortVars, resolveVars>>

\* line 364: the lambda raises, and the exception leaves every activation
LookupRaises ==
    /\ InLoop
    /\ Raised(Lookup)
    /\ stack' = <<>>
    /\ result' = Lookup
    /\ pc' = "done"
    /\ UNCHANGED <<mode, rest, target>>
    /\ UNCHANGED <<prefixVars, sortVars, resolveVars>>

AtSort ==
    /\ mode = "build" /\ pc = "running"
    /\ Top.phase = "loop"
    /\ Top.i > Len(TopBranch.continuations)

\* What branch.all_conditions_sorted() may do, over the uniquifiers drawn.
SortOutcomes(branch) ==
    {all_conditions_sorted(branch, uniq) : uniq \in Uniquifiers(branch)}

\* line 373: branch.all_conditions_sorted() returns the sorted pairs
SortAllConditions ==
    /\ AtSort
    /\ \E s \in SortOutcomes(TopBranch) :
          /\ Returned(s)
          /\ stack' = SetTop([Top EXCEPT !.sorted = s.val, !.phase = "emit"])
    /\ UNCHANGED <<mode, pc, rest, target, result>>
    /\ UNCHANGED <<prefixVars, sortVars, resolveVars>>

\* line 373 (line 91): the sort compares two Condition objects and raises,
\* and the exception leaves every activation
SortRaises ==
    /\ AtSort
    /\ \E s \in SortOutcomes(TopBranch) :
          /\ Raised(s)
          /\ result' = s
    /\ stack' = <<>>
    /\ pc' = "done"
    /\ UNCHANGED <<mode, rest, target>>
    /\ UNCHANGED <<prefixVars, sortVars, resolveVars>>

\* lines 373-382: the loop that appends one ir.Branch per pair
Emit ==
    /\ mode = "build" /\ pc = "running"
    /\ Top.phase = "emit"
    /\ stack' = SetTop([Top EXCEPT
            !.result = EmitNodes(Top.sorted, Top.continuation_dict),
            !.phase = "return"])
    /\ UNCHANGED <<mode, pc, rest, target, result>>
    /\ UNCHANGED <<prefixVars, sortVars, resolveVars>>

\* line 384 in a recursive activation: the caller stores the list under the
\* continuation's bid (line 367) and goes on with its loop
ReturnToCaller ==
    /\ mode = "build" /\ pc = "running"
    /\ Top.phase = "return"
    /\ Len(stack) > 1
    /\ LET caller == stack[Len(stack) - 1]
           bid == rest[caller.branch].continuations[caller.i].prefix
       IN stack' = [SubSeq(stack, 1, Len(stack) - 1) EXCEPT
                       ![Len(stack) - 1] =
                           [caller EXCEPT
                              !.continuation_dict = DictSet(@, bid, Top.result),
                              !.i = @ + 1]]
    /\ UNCHANGED <<mode, pc, rest, target, result>>
    /\ UNCHANGED <<prefixVars, sortVars, resolveVars>>

\* line 384 in the outermost activation
ReturnResult ==
    /\ mode = "build" /\ pc = "running"
    /\ Top.phase = "return"
    /\ Len(stack) = 1
    /\ result' = Return(Top.result)
    /\ stack' = <<>>
    /\ pc' = "done"
    /\ UNCHANGED <<mode, rest, target>>
    /\ UNCHANGED <<prefixVars, sortVars, resolveVars>>

NextBuild ==
    \/ Call
    \/ LookupMiss
    \/ Recurse
    \/ LookupRaises
    \/ SortAllConditions
    \/ SortRaises
    \/ Emit
    \/ ReturnToCaller
    \/ ReturnResult
SpecBuild == InitBuild /\ [][NextBuild]_vars
FairSpecBuild == SpecBuild /\ WF_vars(NextBuild)

-----------------------------------------------------------------------------
(* Claims about build_branch.                                              *)

SequenceOf(k) == rest[k].prefix.sequence

\* The groups whose prefix is, as a sequence of bids, prefix k followed by b.
GroupsAfter(k, b) ==
    {m \in 1..Len(rest) : SequenceOf(m) = Append(SequenceOf(k), b)}

\* How often the pair (expression e, bid b) occurs among the nodes / pairs.
NodeCount(nodes, e, b) ==
    Cardinality({j \in 1..Len(nodes) : nodes[j].test = e /\ nodes[j].bid = b})
PairCount(pairs, e, b) ==
    Cardinality({j \in 1..Len(pairs) :
                    pairs[j].cond.expr = e /\ pairs[j].bid = b})

\* nodes is a decision list of group k: one node per (condition, bid) pair
\* of the group, and below each node a decision list of the group that
\* follows its bid, where there is one.
RECURSIVE IsDecisionList(_, _)
IsDecisionList(nodes, k) ==
    LET pairs == PairsOf(rest[k].continuations)
    IN /\ Len(nodes) = Len(pairs)
       /\ \A j \in 1..Len(pairs) :
             NodeCount(nodes, pairs[j].cond.expr, pairs[j].bid)
               = PairCount(pairs, pairs[j].cond.expr, pairs[j].bid)
       /\ \A j \in 1..Len(nodes) :
             \A m \in GroupsAfter(k, nodes[j].bid) :
                 IsDecisionList(nodes[j].children, m)

\* C2: each node build_branch emits for bid b has as children the decision
\* list of the group whose prefix is the compiled group's prefix followed by
\* b, whenever such a group is in the list.
C2_ChildrenLinked ==
    mode = "build" =>
      \A f \in 1..Len(stack) :
        stack[f].phase = "return" =>
          \A j \in 1..Len(stack[f].result) :
            \A m \in GroupsAfter(stack[f].branch, stack[f].result[j].bid) :
                IsDecisionList(stack[f].result[j].children, m)

\* The continuations of the compiled group that lead to no group.
UnknownContinuations ==
    {c \in 1..Len(rest[target].continuations) :
        GroupsAfter(target, rest[target].continuations[c].prefix) = {}}

\* C3: when a continuation's resulting prefix is the prefix of no group,
\* build_branch raises no error and every node it emits for that bid has an
\* empty children list.
C3_UnknownContinuation ==
    (mode = "build" /\ pc # "start" /\ UnknownContinuations # {}) =>
      /\ ~Raised(result)
      /\ Returned(result) =>
            \A c \in UnknownContinuations, j \in 1..Len(result.val) :
                result.val[j].bid = rest[target].continuations[c].prefix
                    => result.val[j].children = <<>>

\* C9: build_branch emits exactly one node per (condition, bid) pair of the
\* group's continuations, in the order all_conditions_sorted produced the
\* pairs, each node carrying the condition's expression and the bid; a
\* continuation without conditions contributes no node.
C9_OneNodePerPair ==
    mode = "build" =>
      \A f \in 1..Len(stack) :
        stack[f].phase = "return" =>
          LET nodes == stack[f].result
              sorted == stack[f].sorted
              conts == rest[stack[f].branch].continuations
              pairs == PairsOf(conts)
          IN /\ Len(nodes) = Len(pairs)
             /\ Len(nodes) = Len(sorted)
             /\ \A j \in 1..Len(nodes) :
                   /\ nodes[j].test = sorted[j].cond.expr
                   /\ nodes[j].bid = sorted[j].bid
             /\ \A j \in 1..Len(pairs) :
                   NodeCount(nodes, pairs[j].cond.expr, pairs[j].bid)
                     = PairCount(pairs, pairs[j].cond.expr, pairs[j].bid)
             /\ \A b \in BuildBids :
                   (\A c \in 1..Len(conts) :
                       conts[c].prefix = b => conts[c].conditions = <<>>)
                     => \A j \in 1..Len(nodes) : nodes[j].bid # b

\* A group with two conditions of different priority has been compiled into
\* two nodes.
C9_Witness ==
    /\ mode = "build"
    /\ stack # <<>>
    /\ Top.phase = "return"
    /\ Len(Top.result) = 2
    /\ Top.sorted[1].cond.priority # Top.sorted[2].cond.priority
    /\ Top.result[1].test # Top.result[2].test

LongestPrefix ==
    CHOOSE n \in {Len(SequenceOf(k)) : k \in 1..Len(rest)} :
        \A k \in 1..Len(rest) : Len(SequenceOf(k)) <= n

\* Every recursive activation compiles a group whose prefix is one bid
\* longer than its caller's, and the depth stays within the longest prefix
\* plus one.
DepthBounded ==
    stack # <<>> =>
    /\ Len(stack) <= LongestPrefix + 1
    /\ \A f \in 2..Len(stack) :
          Len(SequenceOf(stack[f].branch))
            = Len(SequenceOf(stack[f - 1].branch)) + 1

\* C10: build_branch terminates: each recursive call is on a group whose
\* prefix is one bid longer, the recursion depth never exceeds the longest
\* prefix plus one, and the outermost call ends (returns or raises).
C10_Terminates == [](mode = "build" => DepthBounded) /\ <>(pc = "done")

\* The recursion has reached a group two bids below the compiled one.
C10_Witness ==
    /\ mode = "build"
    /\ Len(stack) = 3
    /\ Len(SequenceOf(stack[3].branch)) = Len(SequenceOf(stack[1].branch)) + 2

-----------------------------------------------------------------------------
(* The whole program: any of the four components.                          *)

Init == InitPrefix \/ InitSort \/ InitResolve \/ InitBuild
Next == NextPrefix \/ NextSort \/ NextResolve \/ NextBuild
Spec == Init /\ [][Next]_vars

====
